---------------------------- MODULE Spec2Model ----------------------------
(***************************************************************************)
(* Addis Traffic AI: the simulation drivers (AddisTrafficBrain.run of      *)
(* src/simulation/sim_manager.py and run_simulation of r_traffic_brain.py),*)
(* the rule-based signal policy, the telemetry harvester, the feature and  *)
(* label builder of the predictor, the train/test splits, the inference    *)
(* function of the dashboard and the synthetic data generator.             *)
(***************************************************************************)
EXTENDS Integers, Sequences, FiniteSets, TLC

VARIABLES
    \* ---- simulation driver ----
    program,        \* which script runs: "sim_manager" or "r_traffic_brain"
    pc,             \* position inside run() / run_simulation()
    step,           \* self.step / step
    data_buffer,    \* self.data_buffer / the rows handed to the csv writer
    sink,           \* the telemetry file as it is on disk
    engine,         \* the TraCI connection: "open" or "closed"
    halting,        \* engine: getLastStepHaltingNumber per lane
    phaseState,     \* engine: per-lane signal states of each traffic light
    phaseDuration,  \* engine: getPhaseDuration per traffic light
    tlsIdx,         \* position of the for-loop over tls_ids
    exc,            \* the exception currently propagating ("none" if none)
    interruptAt,    \* where a KeyboardInterrupt was delivered ("none" if never)
    failureAt,      \* where a call raised an Exception ("none" if never)
    harvested,      \* the speed list each record of data_buffer was built from
    \* ---- feature/label builder and train/test split ----
    script,         \* "train_brain" or "verify_integrity"
    bpc,            \* "loaded", "built", "split" or "error"
    df,             \* the telemetry table read by pd.read_csv
    win,            \* the shifts applied: [H, L1, L2]
    df_clean,       \* the rows left by dropna()
    split,          \* [train, test]: the rows of X_train and of X_test
    \* ---- inference function of the dashboard ----
    modelFile,      \* the artifact at MODEL_PATH: "absent", "valid" or "corrupt"
    pred_float,     \* what model.predict returned for the last request, in tenths
    response,       \* the pair predict_congestion returned last
    servedWith,     \* the state of the artifact the last request met
    serverUp,       \* no exception has left predict_congestion
    erroredBefore,  \* some earlier request was answered with an error
    request,        \* the kind of each value handed to predict_congestion last
    \* ---- synthetic data generator ----
    gpc,            \* "loop", "concat" or "saved" ("idle" when not run)
    all_days,       \* the day tables appended so far
    final_df        \* the table written to OUTPUT_FILE

driverVars == <<program, pc, step, data_buffer, sink, engine, halting,
                phaseState, phaseDuration, tlsIdx, exc, interruptAt, failureAt,
                harvested>>

builderVars == <<script, bpc, df, win, df_clean, split>>

serveVars == <<modelFile, pred_float, response, servedWith, serverUp, erroredBefore,
               request>>

genVars == <<gpc, all_days, final_df>>

vars == <<driverVars, builderVars, serveVars, genVars>>

-----------------------------------------------------------------------------
(* Bounds and program constants *)

\* MAX_STEPS is 3600 in the source (one simulated hour); the loop is explored
\* with a short ceiling.
MAX_STEPS == 3

\* Phase duration the engine reports before any intervention.
InitialDuration == 30

\* if max_queue_length > 10
Q_THRESH == 10

\* setPhaseDuration(tls_id, current_phase_duration + 10)
DELTA_T == 10

\* r_traffic_brain: if step % 100 == 0
TLS_POLL_EVERY == 100

Programs == {"sim_manager", "r_traffic_brain"}

\* traci.trafficlight.getIDList()
tls_ids == <<1, 2>>

TlsSet == {tls_ids[i] : i \in 1..Len(tls_ids)}

\* traci.trafficlight.getControlledLanes(tls_id)
getControlledLanes(tls_id) == IF tls_id = 1 THEN <<1, 2>> ELSE <<3>>

Lanes == {1, 2, 3}

\* Halting counts the engine may report: none, at the threshold, just above it.
HaltingValues == {0, Q_THRESH, Q_THRESH + 1}

\* Per-lane signal states of a traffic light (getRedYellowGreenState).
PhaseStates == {<<"G", "r">>, <<"r", "r">>}

\* At least one lane of the phase indicator is in a "go" state.
HasGo(state) == \E k \in 1..Len(state) : state[k] \in {"G", "g"}

\* Per-vehicle speed lists the engine may report in one snapshot.
SpeedLists == {<< >>, <<1, 1, 2>>}

-----------------------------------------------------------------------------
(* Harvester *)

RECURSIVE SumSeq(_)
SumSeq(s) == IF s = << >> THEN 0 ELSE s[1] + SumSeq(Tail(s))

\* round(x, 2) of the non-negative rational n/d, in hundredths (half to even)
Round2(n, d) ==
    LET q == (100 * n) \div d
        r == (100 * n) % d
    IN  IF 2 * r > d THEN q + 1
        ELSE IF 2 * r < d THEN q
        ELSE IF q % 2 = 0 THEN q ELSE q + 1

\* Faulty variant: floor division in place of true division.
AvgSpeed_FloorDiv(all_speeds) ==
    IF all_speeds # << >> THEN <<SumSeq(all_speeds) \div Len(all_speeds), 1>>
    ELSE <<0, 1>>

\* avg_speed = sum(all_speeds) / len(all_speeds) if all_speeds else 0.0
\* A speed is kept as the rational <<numerator, denominator>>.
AvgSpeed(all_speeds) ==
    IF all_speeds # << >> THEN <<SumSeq(all_speeds), Len(all_speeds)>>
    ELSE <<0, 1>>

\* The record collect_data appends (sim_manager.py).
ManagerRecord(s, all_speeds) ==
    LET avg == AvgSpeed(all_speeds)
    IN  [step |-> s,
         vehicle_count |-> Len(all_speeds),
         avg_speed |-> <<Round2(avg[1], avg[2]), 100>>,
         timestamp |-> "HH:MM:SS"]

\* The row run_simulation hands to writer.writerow (r_traffic_brain.py).
RRecord(s, all_speeds) ==
    [step |-> s,
     vehicle_count |-> Len(all_speeds),
     avg_speed |-> AvgSpeed(all_speeds)]

\* pd.DataFrame(self.data_buffer).to_csv(filename, index=False): the columns
\* are those of the records; an empty buffer has none.
ManagerTable(buffer) ==
    [header |-> IF buffer = << >> THEN << >>
                ELSE <<"step", "vehicle_count", "avg_speed", "timestamp">>,
     rows |-> buffer]

\* csv.DictWriter(csvfile, fieldnames) + writeheader() + the rows written.
RTable(buffer) ==
    [header |-> <<"step", "vehicle_count", "avg_speed">>,
     rows |-> buffer]

NoFile == [header |-> <<"-">>, rows |-> << >>]

-----------------------------------------------------------------------------
(* Signal control policy *)

\* max_queue_length = 0; for lane in controlled_lanes: if queue > max: max = queue
RECURSIVE MaxOver(_, _)
MaxOver(lanes, acc) ==
    IF lanes = << >> THEN acc
    ELSE MaxOver(Tail(lanes),
                 IF halting[lanes[1]] > acc THEN halting[lanes[1]] ELSE acc)

max_queue_length(tls_id) == MaxOver(getControlledLanes(tls_id), 0)

\* Faulty variant: the increment is written as the new duration, not added to the
\* duration read from the engine.
NewPhaseDuration_NotAdded(tls_id) ==
    IF max_queue_length(tls_id) > Q_THRESH
    THEN DELTA_T
    ELSE phaseDuration[tls_id]

\* The duration optimize_traffic_lights leaves at tls_id.
NewPhaseDuration(tls_id) ==
    IF max_queue_length(tls_id) > Q_THRESH
    THEN phaseDuration[tls_id] + DELTA_T
    ELSE phaseDuration[tls_id]

-----------------------------------------------------------------------------
(* Simulation driver *)

LoopPcs == {"check", "advance", "policy", "collect", "incr"}

Terminal == pc \in {"returned", "raised"}

InitDriver ==
    /\ program \in Programs
    /\ pc = IF program = "sim_manager" THEN "start" ELSE "open"
    /\ step = 0
    /\ data_buffer = << >>
    /\ sink = NoFile
    /\ engine = "open"
    /\ halting \in [Lanes -> HaltingValues]
    /\ phaseState \in [TlsSet -> PhaseStates]
    /\ phaseDuration = [t \in TlsSet |-> InitialDuration]
    /\ tlsIdx = 1
    /\ exc = "none"
    /\ interruptAt = "none"
    /\ failureAt = "none"
    /\ harvested = << >>

\* sim_manager: print("System Online") before the try block.
run_start ==
    /\ program = "sim_manager" /\ pc = "start"
    /\ pc' = "check"
    /\ UNCHANGED <<program, step, data_buffer, sink, engine, halting, phaseState,
                   phaseDuration, tlsIdx, exc, interruptAt, failureAt,
                   harvested>>
    /\ UNCHANGED <<builderVars, serveVars, genVars>>

\* r_traffic_brain: with open('addis_data.csv', 'w') ...: writeheader(); step = 0
open_csv ==
    /\ program = "r_traffic_brain" /\ pc = "open"
    /\ pc' = "check"
    /\ UNCHANGED <<program, step, data_buffer, sink, engine, halting, phaseState,
                   phaseDuration, tlsIdx, exc, interruptAt, failureAt,
                   harvested>>
    /\ UNCHANGED <<builderVars, serveVars, genVars>>

\* Faulty variant: the loop test admits step = MAX_STEPS.
loop_check_OffByOne ==
    /\ pc = "check"
    /\ \E demand \in 0..1 :
          pc' = IF demand > 0 /\ step <= MAX_STEPS THEN "advance"
                ELSE IF program = "sim_manager" THEN "save" ELSE "close"
    /\ UNCHANGED <<program, step, data_buffer, sink, engine, halting, phaseState,
                   phaseDuration, tlsIdx, exc, interruptAt, failureAt,
                   harvested>>
    /\ UNCHANGED <<builderVars, serveVars, genVars>>

\* while getMinExpectedNumber() > 0 and step < MAX_STEPS
loop_check ==
    /\ pc = "check"
    /\ \E demand \in 0..1 :
          pc' = IF demand > 0 /\ step < MAX_STEPS THEN "advance"
                ELSE IF program = "sim_manager" THEN "save" ELSE "close"
    /\ UNCHANGED <<program, step, data_buffer, sink, engine, halting, phaseState,
                   phaseDuration, tlsIdx, exc, interruptAt, failureAt,
                   harvested>>
    /\ UNCHANGED <<builderVars, serveVars, genVars>>

\* traci.simulationStep(): the engine moves to a new snapshot.
simulationStep ==
    /\ pc = "advance"
    /\ halting' \in [Lanes -> HaltingValues]
    /\ phaseState' \in [TlsSet -> PhaseStates]
    /\ pc' = "policy"
    /\ tlsIdx' = 1
    /\ UNCHANGED <<program, step, data_buffer, sink, engine, phaseDuration,
                   exc, interruptAt, failureAt,
                   harvested>>
    /\ UNCHANGED <<builderVars, serveVars, genVars>>

\* sim_manager: one pass of "for tls_id in tls_ids" in optimize_traffic_lights.
optimize_tls ==
    /\ program = "sim_manager" /\ pc = "policy"
    /\ tlsIdx <= Len(tls_ids)
    /\ LET tls_id == tls_ids[tlsIdx]
       IN  phaseDuration' = [phaseDuration EXCEPT ![tls_id] = NewPhaseDuration(tls_id)]
    /\ tlsIdx' = tlsIdx + 1
    /\ pc' = IF tlsIdx = Len(tls_ids) THEN "collect" ELSE "policy"
    /\ UNCHANGED <<program, step, data_buffer, sink, engine, halting, phaseState,
                   exc, interruptAt, failureAt,
                   harvested>>
    /\ UNCHANGED <<builderVars, serveVars, genVars>>

\* r_traffic_brain: if step % 100 == 0: for tls in tls_list: pass
r_policy ==
    /\ program = "r_traffic_brain" /\ pc = "policy"
    /\ pc' = "collect"
    /\ UNCHANGED <<program, step, data_buffer, sink, engine, halting, phaseState,
                   phaseDuration, tlsIdx, exc, interruptAt, failureAt,
                   harvested>>
    /\ UNCHANGED <<builderVars, serveVars, genVars>>

\* collect_data() / get_network_stats() + writer.writerow(...)
collect_data ==
    /\ pc = "collect"
    /\ \E all_speeds \in SpeedLists :
          /\ data_buffer' = Append(data_buffer,
                                   IF program = "sim_manager"
                                   THEN ManagerRecord(step, all_speeds)
                                   ELSE RRecord(step, all_speeds))
          /\ harvested' = Append(harvested, all_speeds)
    /\ pc' = "incr"
    /\ UNCHANGED <<program, step, sink, engine, halting, phaseState,
                   phaseDuration, tlsIdx, exc, interruptAt, failureAt>>
    /\ UNCHANGED <<builderVars, serveVars, genVars>>

\* self.step += 1 / step += 1
step_incr ==
    /\ pc = "incr"
    /\ step' = step + 1
    /\ pc' = "check"
    /\ UNCHANGED <<program, data_buffer, sink, engine, halting, phaseState,
                   phaseDuration, tlsIdx, exc, interruptAt, failureAt,
                   harvested>>
    /\ UNCHANGED <<builderVars, serveVars, genVars>>

\* Where control goes when `kind` is raised at the current position.
HandlerFor(kind) ==
    IF program = "sim_manager"
    THEN CASE pc = "start" -> "raised"
           [] pc \in LoopPcs -> IF kind = "KeyboardInterrupt" THEN "except" ELSE "save"
           [] pc = "except" -> "save"
           [] OTHER -> "raised"
    ELSE CASE pc = "open" -> "raised"
           [] pc \in LoopPcs -> IF kind = "Exception" THEN "except" ELSE "close"
           [] pc = "except" -> "close"
           [] pc = "close" -> "fileclose"
           [] OTHER -> "raised"

\* The positions at which a call into the engine or the file system can raise.
CanFail ==
    \/ pc \in {"advance", "collect", "close"}
    \/ pc = "check" /\ (program = "sim_manager" \/ step < MAX_STEPS)
    \/ pc = "policy" /\ (program = "sim_manager" \/ step % TLS_POLL_EVERY = 0)
    \/ pc = "save" /\ program = "sim_manager"
    \/ pc \in {"open", "fileclose"} /\ program = "r_traffic_brain"

\* A user interrupt delivered while run() / run_simulation() executes.
KeyboardInterrupt ==
    /\ ~Terminal
    /\ interruptAt = "none"
    /\ interruptAt' = pc
    /\ exc' = "KeyboardInterrupt"
    /\ pc' = HandlerFor("KeyboardInterrupt")
    /\ UNCHANGED <<program, step, data_buffer, sink, engine, halting, phaseState,
                   phaseDuration, tlsIdx, failureAt, harvested>>
    /\ UNCHANGED <<builderVars, serveVars, genVars>>

\* A TraCI call or a file operation raises an Exception.
CallFailure ==
    /\ CanFail
    /\ failureAt = "none"
    /\ failureAt' = pc
    /\ exc' = "Exception"
    /\ pc' = HandlerFor("Exception")
    /\ UNCHANGED <<program, step, data_buffer, sink, engine, halting, phaseState,
                   phaseDuration, tlsIdx, interruptAt, harvested>>
    /\ UNCHANGED <<builderVars, serveVars, genVars>>

\* sim_manager: except KeyboardInterrupt: print(...)
\* r_traffic_brain: except Exception as e: print(...)
except_handler ==
    /\ pc = "except"
    /\ exc' = "none"
    /\ pc' = IF program = "sim_manager" THEN "save" ELSE "close"
    /\ UNCHANGED <<program, step, data_buffer, sink, engine, halting, phaseState,
                   phaseDuration, tlsIdx, interruptAt, failureAt,
                   harvested>>
    /\ UNCHANGED <<builderVars, serveVars, genVars>>

\* sim_manager finally: self.save_data()
save_data ==
    /\ program = "sim_manager" /\ pc = "save"
    /\ sink' = ManagerTable(data_buffer)
    /\ pc' = "close"
    /\ UNCHANGED <<program, step, data_buffer, engine, halting, phaseState,
                   phaseDuration, tlsIdx, exc, interruptAt, failureAt,
                   harvested>>
    /\ UNCHANGED <<builderVars, serveVars, genVars>>

\* finally: traci.close()
traci_close ==
    /\ pc = "close"
    /\ engine' = "closed"
    /\ pc' = IF program = "r_traffic_brain" THEN "fileclose"
             ELSE IF exc = "none" THEN "returned" ELSE "raised"
    /\ UNCHANGED <<program, step, data_buffer, sink, halting, phaseState,
                   phaseDuration, tlsIdx, exc, interruptAt, failureAt,
                   harvested>>
    /\ UNCHANGED <<builderVars, serveVars, genVars>>

\* r_traffic_brain: leaving the with block closes csvfile, which writes it out.
csv_exit ==
    /\ program = "r_traffic_brain" /\ pc = "fileclose"
    /\ sink' = RTable(data_buffer)
    /\ pc' = IF exc = "none" THEN "returned" ELSE "raised"
    /\ UNCHANGED <<program, step, data_buffer, engine, halting, phaseState,
                   phaseDuration, tlsIdx, exc, interruptAt, failureAt,
                   harvested>>
    /\ UNCHANGED <<builderVars, serveVars, genVars>>

NoResponse == [kind |-> "none", count |-> 0, status |-> "", raised |-> FALSE]

\* The builder and the dashboard are not running.
BuilderIdle ==
    /\ script = "none" /\ bpc = "idle" /\ df = << >>
    /\ win = [H |-> 0, L1 |-> 0, L2 |-> 0]
    /\ df_clean = << >> /\ split = [train |-> << >>, test |-> << >>]

ServeIdle ==
    /\ modelFile = "absent" /\ pred_float = 0
    /\ response = NoResponse
    /\ servedWith = "none" /\ serverUp = TRUE /\ erroredBefore = FALSE
    /\ request = << >>

NextDriver ==
    \/ run_start
    \/ open_csv
    \/ loop_check
    \/ simulationStep
    \/ optimize_tls
    \/ r_policy
    \/ collect_data
    \/ step_incr
    \/ KeyboardInterrupt
    \/ CallFailure
    \/ except_handler
    \/ save_data
    \/ traci_close
    \/ csv_exit

GenIdle == gpc = "idle" /\ all_days = << >> /\ final_df = << >>

Init == InitDriver /\ BuilderIdle /\ ServeIdle /\ GenIdle

Spec == Init /\ [][NextDriver]_vars

\* The interpreter keeps executing the statements of run() / run_simulation()
\* for as long as there is a next one.
FairSpec == Init /\ [][NextDriver]_vars /\ WF_vars(NextDriver)

-----------------------------------------------------------------------------
(* Feature/label builder: train_brain and verify_integrity *)

\* Rows per day and days of the small telemetry tables explored.
MaxDayRows == 4

MaxDays == 2

\* Largest shift of the small window settings explored.
MaxShift == 2

\* Largest cleaned table whose shuffles are enumerated.
MaxShuffleRows == 8

\* HORIZON = 300; shift(60); shift(300)
HORIZON == 300

LAG_1MIN == 60

LAG_5MIN == 300

\* generate_synthetic_data.py: STEPS_PER_DAY = 3600; also MAX_STEPS of a full run
STEPS_PER_DAY == 3600

\* The missing value shift() leaves where it has no row to read.
NaN == -1

\* The shifts of the source, and scaled-down ones for the small tables.
SourceWindow == [H |-> HORIZON, L1 |-> LAG_1MIN, L2 |-> LAG_5MIN]

Windows ==
    {SourceWindow}
    \cup {[H |-> h, L1 |-> a, L2 |-> b] : h \in 1..MaxShift, a \in 1..MaxShift,
                                           b \in 1..MaxShift}

\* The table generate_day(day_id) builds, one row per step; the counts are
\* pairwise different over a table, so that a value names the row it was read
\* from.
day_table(day_id, rows) ==
    [t \in 1..rows |->
        [day |-> day_id, step |-> t - 1,
         vehicle_count |-> (day_id - 1) * rows + t - 1,
         avg_speed |-> 15]]

\* pd.concat(all_days) for days 1..days, written and read back without the index
RECURSIVE concat_days(_, _)
concat_days(days, rows) ==
    IF days = 0 THEN << >>
    ELSE concat_days(days - 1, rows) \o day_table(days, rows)

Tables ==
    {concat_days(d, n) : d \in 1..MaxDays, n \in 0..MaxDayRows}
    \cup {concat_days(1, STEPS_PER_DAY)}

\* Faulty variant: the shift runs the other way.
shift_Reversed(col, k) ==
    [p \in 1..Len(col) |-> IF p + k \in 1..Len(col) THEN col[p + k] ELSE NaN]

\* Series.shift(k): position p reads position p - k, NaN outside the table
shift(col, k) ==
    [p \in 1..Len(col) |-> IF p - k \in 1..Len(col) THEN col[p - k] ELSE NaN]

\* df["target"], df["lag_1min"], df["lag_5min"] added to the table; index is
\* the RangeIndex label read_csv gives each row.
with_features(t, w) ==
    LET count == [p \in 1..Len(t) |-> t[p].vehicle_count]
        target == shift(count, 0 - w.H)
        lag_1min == shift(count, w.L1)
        lag_5min == shift(count, w.L2)
    IN  [p \in 1..Len(t) |->
            [index |-> p - 1, day |-> t[p].day, step |-> t[p].step,
             vehicle_count |-> t[p].vehicle_count, avg_speed |-> t[p].avg_speed,
             target |-> target[p], lag_1min |-> lag_1min[p],
             lag_5min |-> lag_5min[p]]]

HasNaN(row) ==
    \/ row.vehicle_count = NaN \/ row.avg_speed = NaN \/ row.step = NaN
    \/ row.target = NaN \/ row.lag_1min = NaN \/ row.lag_5min = NaN

\* DataFrame.dropna(): the rows without a missing value, in order
dropna(frame) == SelectSeq(frame, LAMBDA row : ~HasNaN(row))

\* df -> df_clean of train_brain / verify_integrity
build_features(t, w) == dropna(with_features(t, w))

InitBuilder ==
    /\ script \in {"train_brain", "verify_integrity"}
    /\ bpc = "loaded"
    /\ df \in Tables
    /\ win \in Windows
    /\ Len(df) > MaxDays * MaxDayRows => win = SourceWindow
    /\ df_clean = << >>
    /\ split = [train |-> << >>, test |-> << >>]

\* FEATURE ENGINEERING block of both scripts
feature_engineering ==
    /\ bpc = "loaded"
    /\ df_clean' = build_features(df, win)
    /\ bpc' = "built"
    /\ UNCHANGED <<script, df, win, split>>
    /\ UNCHANGED <<driverVars, serveVars, genVars>>

\* cutoff = int(len(X) * 0.8)
cutoff(n) == (8 * n) \div 10

\* verify_integrity: X.iloc[:cutoff], X.iloc[cutoff:]
chronological_split ==
    /\ script = "verify_integrity" /\ bpc = "built"
    /\ split' = [train |-> SubSeq(df_clean, 1, cutoff(Len(df_clean))),
                 test |-> SubSeq(df_clean, cutoff(Len(df_clean)) + 1, Len(df_clean))]
    /\ bpc' = "split"
    /\ UNCHANGED <<script, df, win, df_clean>>
    /\ UNCHANGED <<driverVars, serveVars, genVars>>

\* sklearn: n_test = ceil(test_size * n_samples) with test_size = 0.2
n_test(n) == (2 * n + 9) \div 10

Pick(frame, positions) ==
    SelectSeq(frame, LAMBDA row : \E p \in positions : frame[p] = row)

\* train_brain: train_test_split(X, y, test_size=0.2, random_state=42,
\* shuffle=True). The permutation the seeded generator draws is not computed
\* here: any choice of the test rows is allowed. The rows of each part are
\* kept in table order.
shuffled_split ==
    /\ script = "train_brain" /\ bpc = "built"
    /\ Len(df_clean) <= MaxShuffleRows
    /\ Len(df_clean) - n_test(Len(df_clean)) > 0
    /\ \E test \in SUBSET (1..Len(df_clean)) :
          /\ Cardinality(test) = n_test(Len(df_clean))
          /\ split' = [train |-> Pick(df_clean, (1..Len(df_clean)) \ test),
                       test |-> Pick(df_clean, test)]
    /\ bpc' = "split"
    /\ UNCHANGED <<script, df, win, df_clean>>
    /\ UNCHANGED <<driverVars, serveVars, genVars>>

\* train_test_split raises ValueError when a part would be empty
split_error ==
    /\ script = "train_brain" /\ bpc = "built"
    /\ Len(df_clean) - n_test(Len(df_clean)) <= 0
    /\ bpc' = "error"
    /\ UNCHANGED <<script, df, win, df_clean, split>>
    /\ UNCHANGED <<driverVars, serveVars, genVars>>

NextBuilder ==
    \/ feature_engineering
    \/ chronological_split
    \/ shuffled_split
    \/ split_error

\* The simulation driver is not running.
DriverIdle ==
    /\ program = "none" /\ pc = "idle" /\ step = 0 /\ data_buffer = << >>
    /\ sink = NoFile /\ engine = "closed"
    /\ halting = [l \in Lanes |-> 0]
    /\ phaseState = [t \in TlsSet |-> <<"r", "r">>]
    /\ phaseDuration = [t \in TlsSet |-> InitialDuration]
    /\ tlsIdx = 1 /\ exc = "none" /\ interruptAt = "none" /\ failureAt = "none"
    /\ harvested = << >>

BuilderStart == InitBuilder /\ DriverIdle /\ ServeIdle /\ GenIdle

SpecBuilder == BuilderStart /\ [][NextBuilder]_vars

-----------------------------------------------------------------------------
(* Inference function of the dashboard: predict_congestion *)

\* Largest predicted count explored.
MaxPrediction == 200

\* if prediction > 100
T1 == 100

\* if prediction > 180
T2 == 180

\* model.predict raised instead of returning a value.
PredictRaised == -1

\* columns=[...] of the input DataFrame predict_congestion builds
ServeColumns == <<"step", "vehicle_count", "avg_speed", "lag_1min", "lag_5min">>

\* X = df_clean[[...]] of train_brain: the columns the model is fitted on
FitColumns == <<"step", "vehicle_count", "avg_speed", "lag_1min", "lag_5min">>

\* What a caller may hand over for one value: a number, a boolean, a text
\* that is no number, or None.
Kinds == {"number", "bool", "text", "None"}

\* The positions whose value may be something else than a number.  The row is
\* built and converted as a whole, so one position stands for all five.
DeviatingFields == {2}

\* The requests explored: the five values, a number everywhere outside
\* DeviatingFields.
Requests ==
    {req \in [1..Len(ServeColumns) -> Kinds] :
        \A k \in 1..Len(ServeColumns) :
            k \notin DeviatingFields => req[k] = "number"}

\* The request supplies a number for every field of the schema.
Conforms(req) == \A k \in 1..Len(ServeColumns) : req[k] = "number"

\* What model.predict may return, in tenths of a vehicle.
PredFloats == {10 * c + f : c \in 0..MaxPrediction, f \in {0, 9}}

\* int(pred_float): truncation toward zero
int(tenths) == IF tenths >= 0 THEN tenths \div 10 ELSE 0 - ((0 - tenths) \div 10)

\* Faulty variant: the two tests in the other order, the later one overwriting.
Status_Reordered(prediction) ==
    LET s0 == "Free Flow"
        s1 == IF prediction > T2 THEN "Severe Congestion" ELSE s0
        s2 == IF prediction > T1 THEN "Moderate Traffic" ELSE s1
    IN  s2

\* status = "Free Flow"; if prediction > 100: ...; if prediction > 180: ...
Status(prediction) ==
    LET s0 == "Free Flow"
        s1 == IF prediction > T1 THEN "Moderate Traffic" ELSE s0
        s2 == IF prediction > T2 THEN "Severe Congestion" ELSE s1
    IN  s2

\* Faulty variant: no os.path.exists test and no try block around joblib.load.
predict_congestion_Unguarded(file, tenths) ==
    IF file # "valid"
    THEN [kind |-> "none", count |-> 0, status |-> "", raised |-> TRUE]
    ELSE [kind |-> "prediction", count |-> int(tenths),
          status |-> Status(int(tenths)), raised |-> FALSE]

\* What model.predict(input_data) does with a one-row DataFrame of these
\* kinds: the values are converted to floats (a boolean becomes 0.0 or 1.0); a
\* text that is no number raises ValueError; None becomes NaN, which the
\* installed scikit-learn (no version is pinned) either rejects or predicts from.
model_predict(req) ==
    IF \E k \in 1..Len(ServeColumns) : req[k] = "text"
    THEN {PredictRaised}
    ELSE IF \E k \in 1..Len(ServeColumns) : req[k] = "None"
    THEN {PredictRaised} \cup PredFloats
    ELSE PredFloats

\* predict_congestion(...) when the artifact is in state `file` and the model,
\* once loaded, predicts `tenths` (or raises).
predict_congestion(file, tenths) ==
    IF file = "absent"
    THEN [kind |-> "error", count |-> 0, status |-> "Error", raised |-> FALSE]
    ELSE IF file = "corrupt" \/ tenths = PredictRaised
    THEN [kind |-> "error", count |-> 0, status |-> "System Failure",
          raised |-> FALSE]
    ELSE [kind |-> "prediction", count |-> int(tenths),
          status |-> Status(int(tenths)), raised |-> FALSE]

InitServe ==
    /\ modelFile \in {"absent", "valid", "corrupt"}
    /\ pred_float = 0
    /\ response = NoResponse
    /\ servedWith = "none"
    /\ serverUp = TRUE
    /\ erroredBefore = FALSE
    /\ request = << >>

\* btn.click(fn=predict_congestion, ...): one request served
predict ==
    /\ serverUp
    /\ \E req \in Requests : \E tenths \in model_predict(req) :
          LET r == predict_congestion(modelFile, tenths)
          IN  /\ request' = req
              /\ pred_float' = IF r.kind = "prediction" THEN tenths ELSE 0
              /\ response' = r
              /\ serverUp' = ~r.raised
    /\ servedWith' = modelFile
    /\ erroredBefore' = (erroredBefore \/ response.kind = "error")
    /\ UNCHANGED modelFile
    /\ UNCHANGED <<driverVars, builderVars, genVars>>

\* train_brain: joblib.dump(model, MODEL_FILE)
save_model ==
    /\ modelFile' = "valid"
    /\ UNCHANGED <<pred_float, response, servedWith, serverUp, erroredBefore,
                   request>>
    /\ UNCHANGED <<driverVars, builderVars, genVars>>

\* The artifact is removed, or replaced by a file joblib cannot load.
lose_model ==
    /\ modelFile' \in {"absent", "corrupt"}
    /\ UNCHANGED <<pred_float, response, servedWith, serverUp, erroredBefore,
                   request>>
    /\ UNCHANGED <<driverVars, builderVars, genVars>>

NextServe ==
    \/ predict
    \/ save_model
    \/ lose_model

ServeStart == InitServe /\ DriverIdle /\ BuilderIdle /\ GenIdle

SpecServe == ServeStart /\ [][NextServe]_vars

-----------------------------------------------------------------------------
(* Synthetic data generator: generate_synthetic_data.py *)

\* DAYS_TO_SIMULATE = 30, scaled down
DAYS_TO_SIMULATE == 2

\* STEPS_PER_DAY = 3600 of the generator, scaled down
GenStepsPerDay == 2

\* max_cars = 180 + np.random.randint(-30, 30): 150..209; the two ends.
MaxCarsValues == {150, 209}

\* The random quantities behind one row:
\*   g   the bell factor exp(-(step - peak_time)^2 / (2 width^2)), in
\*       thousandths, a value in (0, 1];
\*   nc  the count noise np.random.normal(0, 5), in tenths of a car;
\*   ns  the speed noise np.random.normal(0, 1), in thousandths of a m/s.
\* One draw far from the peak with a large negative count noise and a large
\* positive speed noise, one at the peak with a large positive count noise and
\* a large negative speed noise, one in between with small noises.
RowDraws ==
    {[g |-> 1, nc |-> -200, ns |-> 8000],
     [g |-> 1000, nc |-> 300, ns |-> -3000],
     [g |-> 500, nc |-> 4, ns |-> 123]}

\* np.maximum(counts, 0).astype(int), counts in thousandths of a car
to_count(thousandths) ==
    (IF thousandths > 0 THEN thousandths ELSE 0) \div 1000

\* Faulty variant: the speeds are not clipped.
clip_Absent(num, den, lo, hi) == num

\* np.clip(speeds, lo, hi) of the rational num/den (den > 0): the numerator
\* of the clipped value over the same denominator
clip(num, den, lo, hi) ==
    IF num < lo * den THEN lo * den
    ELSE IF num > hi * den THEN hi * den
    ELSE num

\* One row of generate_day: counts and speeds for max_cars and one draw.
\* avg_speed is in hundredths (np.round(speeds, 2)).
generate_row(day_id, step_no, max_cars, draw) ==
    LET count == to_count(max_cars * draw.g + 100 * draw.nc)
        den == 1000 * max_cars
        speed == 15000 * max_cars - 13000 * count + draw.ns * max_cars
    IN  [day |-> day_id,
         step |-> step_no,
         vehicle_count |-> count,
         avg_speed |-> Round2(clip(speed, den, 1, 20), den)]

\* generate_day(day_id): the table of one day; steps = np.arange(STEPS_PER_DAY)
generate_day(day_id, max_cars, draws) ==
    [p \in 1..GenStepsPerDay |->
        generate_row(day_id, p - 1, max_cars, draws[p])]

\* pd.concat(all_days)
RECURSIVE concat(_)
concat(tables) ==
    IF tables = << >> THEN << >>
    ELSE tables[1] \o concat(Tail(tables))

InitGen ==
    /\ gpc = "loop"
    /\ all_days = << >>
    /\ final_df = << >>

\* for i in range(1, DAYS_TO_SIMULATE + 1): all_days.append(generate_day(i))
append_day ==
    /\ gpc = "loop"
    /\ Len(all_days) < DAYS_TO_SIMULATE
    /\ \E max_cars \in MaxCarsValues :
       \E draws \in [1..GenStepsPerDay -> RowDraws] :
          all_days' = Append(all_days,
                             generate_day(Len(all_days) + 1, max_cars, draws))
    /\ UNCHANGED <<gpc, final_df>>
    /\ UNCHANGED <<driverVars, builderVars, serveVars>>

\* The loop is exhausted: final_df = pd.concat(all_days)
concat_all ==
    /\ gpc = "loop"
    /\ Len(all_days) = DAYS_TO_SIMULATE
    /\ final_df' = concat(all_days)
    /\ gpc' = "concat"
    /\ UNCHANGED all_days
    /\ UNCHANGED <<driverVars, builderVars, serveVars>>

\* final_df.to_csv(OUTPUT_FILE, index=False)
to_csv ==
    /\ gpc = "concat"
    /\ gpc' = "saved"
    /\ UNCHANGED <<all_days, final_df>>
    /\ UNCHANGED <<driverVars, builderVars, serveVars>>

NextGen ==
    \/ append_day
    \/ concat_all
    \/ to_csv

GenStart == InitGen /\ DriverIdle /\ BuilderIdle /\ ServeIdle

SpecGen == GenStart /\ [][NextGen]_vars

-----------------------------------------------------------------------------
(* Properties of the simulation driver and of the signal policy (Spec) *)

\* The telemetry file holds exactly the records appended, in order.
Flushed == sink # NoFile /\ sink.rows = data_buffer

FlushPcs == {"save", "fileclose"}

\* C1: on every exit of run() after the engine was started (the step ceiling,
\* no demand, an interrupt in the loop, or an exception raised by the loop
\* condition, the engine step, the policy, the harvest or the flush), the
\* engine connection is closed, and the buffer is flushed unless the flush
\* itself is what failed.
C1_EveryExitFlushesAndCloses ==
    (/\ Terminal
     /\ interruptAt \in {"none"} \cup LoopPcs
     /\ failureAt \in {"none"} \cup LoopPcs \cup FlushPcs)
    => /\ engine = "closed"
       /\ failureAt \in FlushPcs \/ Flushed

\* C2: a user interrupt delivered in the loop or during the cleanup never
\* leaves run() as an exception, and the telemetry file then holds exactly
\* the records appended before it.
C2_InterruptCaughtAndFlushed ==
    (/\ Terminal
     /\ interruptAt \in LoopPcs \cup {"except", "save", "close", "fileclose"}
     /\ failureAt = "none")
    => (pc = "returned" /\ Flushed)

\* C3: when the engine step, the policy evaluation or the harvest raises inside
\* an iteration, run() flushes the records collected so far, closes the engine
\* and returns; the exception does not leave run().
C3_StepFailureStopsGracefully ==
    (/\ Terminal
     /\ failureAt \in {"advance", "policy", "collect"}
     /\ interruptAt = "none")
    => (pc = "returned" /\ Flushed /\ engine = "closed")

\* C4: no step changes the phase duration of an intersection whose max_queue is
\* at or below Q_THRESH, or whose phase indicator shows no lane in a go state.
C4_NoMutationUnlessQueuedAndGo ==
    [][\A t \in TlsSet :
          (max_queue_length(t) <= Q_THRESH \/ ~HasGo(phaseState[t]))
          => phaseDuration'[t] = phaseDuration[t]]_vars

\* The pass of optimize_traffic_lights over the intersection at tlsIdx.
PolicyPass == program = "sim_manager" /\ pc = "policy" /\ pc' \in {"policy", "collect"}

\* C5: the pass of the policy over an intersection whose max_queue exceeds
\* Q_THRESH during a go phase adds exactly DELTA_T to the duration read from the
\* engine for that intersection, and no pass changes the duration of an
\* intersection other than the one it evaluates.
C5_ExtendsByDeltaT ==
    [][PolicyPass =>
          LET t == tls_ids[tlsIdx]
          IN  /\ (max_queue_length(t) > Q_THRESH /\ HasGo(phaseState[t]))
                 => phaseDuration'[t] = phaseDuration[t] + DELTA_T
              /\ \A j \in TlsSet \ {t} : phaseDuration'[j] = phaseDuration[j]]_vars

\* C5 witness: the first evaluation is over; intersection 1 was queued during a
\* go phase and stands extended once, intersection 2 was not queued and stands
\* at its initial duration.
C5_Witness ==
    /\ program = "sim_manager" /\ pc = "collect" /\ step = 0
    /\ max_queue_length(1) > Q_THRESH /\ HasGo(phaseState[1])
    /\ phaseDuration[1] = InitialDuration + DELTA_T
    /\ max_queue_length(2) <= Q_THRESH
    /\ phaseDuration[2] = InitialDuration

-----------------------------------------------------------------------------
(* Properties of the feature/label builder and of the splits (SpecBuilder) *)

SinglePartition(t) == \A p \in 1..Len(t) : t[p].day = 1

Max2(a, b) == IF a > b THEN a ELSE b

\* The indices the builder is to retain from a table of n rows.
Retained(n, w) == {t \in 0..(n - 1) : t - Max2(w.L1, w.L2) >= 0 /\ t + w.H <= n - 1}

\* C6: from a single-partition table of N rows the builder retains the row at
\* index t exactly when t - max(L1, L2) >= 0 and t + H <= N - 1, in table
\* order, with target[t] = vehicle_count[t + H] and lag_k[t] =
\* vehicle_count[t - L_k]; for N = 3600, H = 300 and lags 60 and 300 these are
\* the 3000 rows 300..3299.
C6_RetainedRows ==
    (bpc # "loaded" /\ SinglePartition(df)) =>
       /\ {df_clean[i].index : i \in 1..Len(df_clean)} = Retained(Len(df), win)
       /\ \A i \in 1..(Len(df_clean) - 1) : df_clean[i].index < df_clean[i + 1].index
       /\ \A i \in 1..Len(df_clean) :
             LET f == df_clean[i]
             IN  /\ f.step = df[f.index + 1].step
                 /\ f.vehicle_count = df[f.index + 1].vehicle_count
                 /\ f.target = df[f.index + 1 + win.H].vehicle_count
                 /\ f.lag_1min = df[f.index + 1 - win.L1].vehicle_count
                 /\ f.lag_5min = df[f.index + 1 - win.L2].vehicle_count
       /\ (Len(df) = STEPS_PER_DAY /\ win = SourceWindow) =>
             /\ Len(df_clean) = 3000
             /\ df_clean[1].index = 300
             /\ df_clean[Len(df_clean)].index = 3299

\* C6 witness: the one-hour table built with the shifts of the source.
C6_Witness ==
    /\ bpc = "built" /\ Len(df) = STEPS_PER_DAY /\ win = SourceWindow
    /\ Len(df_clean) = 3000

\* C7: every row the builder retains takes its lag values and its target from
\* rows of its own day.
C7_WindowsStayInsideDay ==
    bpc # "loaded" =>
       \A i \in 1..Len(df_clean) : \A p \in 1..Len(df) :
          df[p].vehicle_count \in
             {df_clean[i].target, df_clean[i].lag_1min, df_clean[i].lag_5min}
          => df[p].day = df_clean[i].day

\* C8: every split produced from a single sequence is chronological: the first
\* 0.8 fraction of the ordered rows is train, the rest is test, and every train
\* step precedes every test step.
C8_SplitChronological ==
    (bpc = "split" /\ SinglePartition(df)) =>
       /\ split.train = SubSeq(df_clean, 1, cutoff(Len(df_clean)))
       /\ split.test = SubSeq(df_clean, cutoff(Len(df_clean)) + 1, Len(df_clean))
       /\ \A a \in 1..Len(split.train) : \A b \in 1..Len(split.test) :
             split.train[a].step < split.test[b].step

-----------------------------------------------------------------------------
(* Properties of the inference function (SpecServe) *)

Rank(status) ==
    CASE status = "Free Flow" -> 0
      [] status = "Moderate Traffic" -> 1
      [] status = "Severe Congestion" -> 2

\* C9: a predicted count is Free Flow when count <= T1, Moderate when
\* T1 < count <= T2 and Severe when count > T2; every count has exactly one
\* band and the band never decreases as the count grows.
C9_Bands ==
    /\ \A c \in 0..MaxPrediction :
          /\ (c <= T1) <=> (Status(c) = "Free Flow")
          /\ (T1 < c /\ c <= T2) <=> (Status(c) = "Moderate Traffic")
          /\ (c > T2) <=> (Status(c) = "Severe Congestion")
    /\ \A c \in 0..(MaxPrediction - 1) : Rank(Status(c)) <= Rank(Status(c + 1))
    /\ response.kind = "prediction" =>
          /\ response.count * 10 <= pred_float
          /\ pred_float < (response.count + 1) * 10
          /\ response.status =
                IF response.count <= T1 THEN "Free Flow"
                ELSE IF response.count <= T2 THEN "Moderate Traffic"
                ELSE "Severe Congestion"

\* C9 witness: a request answered with the first count of the Severe band.
C9_Witness ==
    /\ response.kind = "prediction" /\ response.count = T2 + 1
    /\ response.status = "Severe Congestion"

\* C10: a request that meets an absent or unloadable artifact is answered with
\* an explicit error and no exception leaves predict_congestion; the server
\* keeps serving, and a request that meets a loadable artifact is answered with
\* a prediction, also after earlier errors.
C10_ModelUnavailableIsReported ==
    /\ serverUp
    /\ servedWith \in {"absent", "corrupt"} =>
          /\ response.kind = "error" /\ ~response.raised
          /\ response.status \in {"Error", "System Failure"}
    /\ servedWith = "valid" /\ Conforms(request) => response.kind = "prediction"

\* C10 witness: a prediction returned after an earlier request was answered
\* with an error.
C10_Witness ==
    /\ erroredBefore /\ serverUp
    /\ servedWith = "valid" /\ response.kind = "prediction"

-----------------------------------------------------------------------------
(* Input contract of the inference function (SpecServe) *)

\* C11: a request that does not supply a number for every field of the schema
\* is answered with an explicit error and no prediction, and the ordered
\* feature names used at serving equal the ones used at fit time.  The code
\* checks nothing: a boolean is converted to 0.0 or 1.0 by the DataFrame and
\* the model, and a prediction with its band is returned.
C11_NonConformingRequestRejected ==
    /\ FitColumns = ServeColumns
    /\ servedWith = "valid" /\ ~Conforms(request) =>
          /\ response.kind = "error"
          /\ response.status \in {"Error", "System Failure"}

-----------------------------------------------------------------------------
(* Properties of the harvester (Spec) *)

\* The distance between two integers.
Dist(a, b) == IF a >= b THEN a - b ELSE b - a

\* C12: every record the harvester appends carries the number of vehicles of
\* its snapshot and, when that number is positive, the arithmetic mean of the
\* snapshot's speeds: exactly in run_simulation, rounded to the nearest
\* hundredth in collect_data; with no vehicle the speed is exactly zero and
\* the record is appended all the same (no division is attempted).
C12_AvgSpeedIsRoundedMean ==
    /\ Len(harvested) = Len(data_buffer)
    /\ \A i \in 1..Len(data_buffer) :
          LET rec == data_buffer[i]
              all_speeds == harvested[i]
              n == rec.avg_speed[1]
              d == rec.avg_speed[2]
          IN  /\ d > 0
              /\ rec.vehicle_count = Len(all_speeds)
              /\ all_speeds = << >> => n = 0
              /\ all_speeds # << >> =>
                    IF program = "sim_manager"
                    THEN /\ d = 100
                         /\ 2 * Dist(n * Len(all_speeds), 100 * SumSeq(all_speeds))
                               <= Len(all_speeds)
                    ELSE n * Len(all_speeds) = SumSeq(all_speeds) * d

\* C12 witness: collect_data has appended a record for an empty snapshot and
\* one for a snapshot whose mean is not a whole number of hundredths.
C12_Witness ==
    /\ program = "sim_manager" /\ pc = "incr"
    /\ \E i, j \in 1..Len(harvested) :
          /\ harvested[i] = << >>
          /\ harvested[j] # << >>
          /\ (SumSeq(harvested[j]) * 100) % Len(harvested[j]) # 0

\* C12 as stated: the recorded speed equals the mean itself.  collect_data
\* rounds it: three vehicles at 1, 1 and 2 m/s are recorded as 1.33, not 4/3.
C12_AvgSpeedIsExactMean ==
    \A i \in 1..Len(data_buffer) :
        LET rec == data_buffer[i]
            all_speeds == harvested[i]
        IN  /\ all_speeds = << >> => rec.avg_speed[1] = 0
            /\ all_speeds # << >> =>
                  rec.avg_speed[1] * Len(all_speeds)
                      = SumSeq(all_speeds) * rec.avg_speed[2]

-----------------------------------------------------------------------------
(* Properties of the synthetic data generator (SpecGen) *)

\* Every row of the table: a day id, a step, a whole non-negative number of
\* vehicles and a speed of 1 to 20 m/s (in hundredths).
RowInRange(row) ==
    /\ row.vehicle_count \in Nat
    /\ 100 <= row.avg_speed /\ row.avg_speed <= 2000

\* C13: every generated row has a non-negative whole vehicle_count and an
\* avg_speed within 1..20; every day contributes exactly the configured
\* number of rows, with step running 0..n-1 in order and tagged with that
\* day's id; the table written is the days one after the other.
C13_GeneratedRowsInRange ==
    /\ \A i \in 1..Len(all_days) :
          /\ Len(all_days[i]) = GenStepsPerDay
          /\ \A p \in 1..Len(all_days[i]) :
                /\ RowInRange(all_days[i][p])
                /\ all_days[i][p].step = p - 1
                /\ all_days[i][p].day = i
    /\ gpc \in {"concat", "saved"} =>
          /\ Len(final_df) = DAYS_TO_SIMULATE * GenStepsPerDay
          /\ \A k \in 1..Len(final_df) :
                /\ RowInRange(final_df[k])
                /\ final_df[k].day = ((k - 1) \div GenStepsPerDay) + 1
                /\ final_df[k].step = (k - 1) % GenStepsPerDay

\* C13 witness: the table has been written and holds a row with no vehicle at
\* the upper speed limit, a row at the lower speed limit and a row strictly
\* between the limits.
C13_Witness ==
    /\ gpc = "saved"
    /\ \E a, b, c \in 1..Len(final_df) :
          /\ final_df[a].vehicle_count = 0 /\ final_df[a].avg_speed = 2000
          /\ final_df[b].avg_speed = 100
          /\ 100 < final_df[c].avg_speed /\ final_df[c].avg_speed < 2000

-----------------------------------------------------------------------------
(* Extension cap, run loop and flush (Spec, FairSpec) *)

\* C14: the cumulative extension of a phase never exceeds a fixed cap: the
\* duration of every intersection's phase stays below its original value plus
\* one extension per step of the longest run.  The code has no cap and no
\* cooldown: the duration grows by DELTA_T at every step the queue stays
\* above Q_THRESH, so any bound fixed in advance is passed by a longer run.
C14_ExtensionCapped ==
    \A t \in TlsSet : phaseDuration[t] < InitialDuration + DELTA_T * MAX_STEPS

\* The buffer holds the steps 0, 1, ..., n-1 in that order, n <= MAX_STEPS,
\* and n is the step counter, or one more between the harvest and the
\* increment.
BufferInOrder ==
    /\ Len(data_buffer) <= MAX_STEPS
    /\ \A i \in 1..Len(data_buffer) : data_buffer[i].step = i - 1
    /\ Len(data_buffer) \in {step, step + 1}
    /\ pc \in {"check", "advance", "policy", "collect"} => Len(data_buffer) = step

\* The positions of one iteration follow one another as advance, policy,
\* harvest, increment, loop check; the advance is entered only from a loop
\* check with step < MAX_STEPS; the policy has evaluated every intersection
\* once when the harvest starts; the harvest appends one record, for the
\* current step; nothing else touches the buffer or the counter.
LoopOrder ==
    /\ pc' # pc /\ pc' \in LoopPcs =>
          <<pc, pc'>> \in {<<"start", "check">>, <<"open", "check">>,
                           <<"check", "advance">>, <<"advance", "policy">>,
                           <<"policy", "collect">>, <<"collect", "incr">>,
                           <<"incr", "check">>}
    /\ pc = "check" /\ pc' = "advance" => step < MAX_STEPS
    /\ pc = "check" /\ step >= MAX_STEPS => pc' \notin LoopPcs \ {"check"}
    /\ pc = "policy" /\ pc' = "collect" /\ program = "sim_manager" =>
          tlsIdx = Len(tls_ids) /\ tlsIdx' = Len(tls_ids) + 1
    /\ pc = "advance" /\ pc' = "policy" => tlsIdx' = 1
    /\ data_buffer' # data_buffer =>
          /\ pc = "collect" /\ pc' = "incr"
          /\ Len(data_buffer') = Len(data_buffer) + 1
          /\ data_buffer'[Len(data_buffer')].step = step
    /\ pc = "collect" /\ pc' = "incr" => data_buffer' # data_buffer
    /\ step' # step => pc = "incr" /\ pc' = "check" /\ step' = step + 1

Names(header) == {header[k] : k \in 1..Len(header)}

\* C16: whatever was recorded, the file a flush writes starts with a header
\* row naming step, vehicle_count and avg_speed and goes on with the whole
\* buffer in order, also when the buffer is empty.  save_data takes the
\* columns from the records: with an empty buffer the DataFrame has no column
\* and the file gets no header.
C16_FlushedTableHasHeader ==
    sink # NoFile =>
        /\ {"step", "vehicle_count", "avg_speed"} \subseteq Names(sink.header)
        /\ sink.rows = data_buffer

============================================================================
